---- MODULE Spec2Model ----
(***************************************************************************)
(* A model of ABCD.py: paraxial ray tracing with ABCD matrices.            *)
(*                                                                         *)
(* Ray, Matrix (and its subclasses Lens, Space, Aperture) and OpticalPath  *)
(* are modelled as records and operators; every number the program holds   *)
(* is a Python float, modelled as a binary floating-point number with a    *)
(* Prec-bit significand and round-to-nearest-even (IEEE-754 double has 53  *)
(* bits; the exponent range is never exhausted by the values used here,    *)
(* so overflow to inf and underflow do not occur).                         *)
(***************************************************************************)
EXTENDS Integers, Sequences, FiniteSets, TLC

(***************************************************************************)
(* Bounds of the model.                                                    *)
(***************************************************************************)
\* significand width of the modelled float (53 in CPython)
Prec == 8
\* longest element sequence of an OpticalPath
MaxLen == 3
\* longest ray list handed to propagateMany
MaxRays == 2
\* largest number of mul_matrix calls behind one composed element
MaxCompose == 2
\* largest ray / height count handed to fan and fanGroup
MaxCount == 3

(***************************************************************************)
(* Python float arithmetic.  A finite float is m * 2^e, kept canonical:    *)
(* m odd, or m = 0 and e = 0, so equal values are equal records.           *)
(***************************************************************************)
RECURSIVE Pow2R(_)
Pow2R(k) == IF k <= 0 THEN 1 ELSE 2 * Pow2R(k - 1)

\* The powers of two, tabulated once.
Pow2T == [k \in 0..30 |-> Pow2R(k)]

Pow2(k) == IF k <= 0 THEN 1 ELSE Pow2T[k]

\* Number of bits of a non-negative integer, by binary search.
BitLen(a) ==
    IF a < 256 THEN
      IF a < 16
      THEN (IF a < 4 THEN (IF a < 2 THEN (IF a < 1 THEN 0 ELSE 1) ELSE 2)
                     ELSE (IF a < 8 THEN 3 ELSE 4))
      ELSE (IF a < 64 THEN (IF a < 32 THEN 5 ELSE 6)
                      ELSE (IF a < 128 THEN 7 ELSE 8))
    ELSE IF a < 65536 THEN
      IF a < 4096
      THEN (IF a < 1024 THEN (IF a < 512 THEN 9 ELSE 10)
                        ELSE (IF a < 2048 THEN 11 ELSE 12))
      ELSE (IF a < 16384 THEN (IF a < 8192 THEN 13 ELSE 14)
                         ELSE (IF a < 32768 THEN 15 ELSE 16))
    ELSE 16 + (CHOOSE n \in 1..15 : a < Pow2T[16 + n] /\ a >= Pow2T[15 + n])

Abs(n) == IF n < 0 THEN -n ELSE n

Sgn(n) == IF n < 0 THEN -1 ELSE IF n = 0 THEN 0 ELSE 1

RECURSIVE Norm(_, _)
Norm(m, e) ==
    IF m = 0 THEN [m |-> 0, e |-> 0]
    ELSE IF m % 2 = 0 THEN Norm(m \div 2, e + 1)
    ELSE [m |-> m, e |-> e]

\* the float nearest to the real number m * 2^e, ties to even
Round(m, e) ==
    LET a == Abs(m)
        n == BitLen(a)
    IN  IF n <= Prec THEN Norm(m, e)
        ELSE LET k == n - Prec
                 q == a \div Pow2(k)
                 r == a % Pow2(k)
                 half == Pow2(k - 1)
                 up == r > half \/ (r = half /\ q % 2 = 1)
             IN  Norm(Sgn(m) * (IF up THEN q + 1 ELSE q), e + k)

\* a Python int n, and the float literal m * 2^e
PyInt(n) == Norm(n, 0)

Dyadic(m, e) == Norm(m, e)

\* float(x) of a Python number x: an int is rounded to the nearest float
float(x) == Round(x.m, x.e)

fneg(x) == [m |-> -x.m, e |-> x.e]

fabs(x) == [m |-> Abs(x.m), e |-> x.e]

fmul(x, y) == Round(x.m * y.m, x.e + y.e)

fadd(x, y) ==
    LET hi == IF x.e >= y.e THEN x ELSE y
        lo == IF x.e >= y.e THEN y ELSE x
        d == hi.e - lo.e
    IN  IF x.m = 0 THEN y
        ELSE IF y.m = 0 THEN x
        \* lo is below an eighth of hi's unit in the last place
        ELSE IF BitLen(Abs(hi.m)) + d > 2 * Prec + 2 THEN hi
        ELSE Round(hi.m * Pow2(d) + lo.m, lo.e)

fsub(x, y) == fadd(x, fneg(y))

\* x / y for y # 0: the quotient to Prec + 2 bits and a sticky bit, rounded
fdiv(x, y) ==
    LET a == Abs(x.m)
        b == Abs(y.m)
        k == 2 * Prec + 2 - BitLen(a)
        num == a * Pow2(k)
        q == num \div b
        sticky == IF num % b = 0 THEN 0 ELSE 1
    IN  IF a = 0 THEN [m |-> 0, e |-> 0]
        ELSE Round(Sgn(x.m) * Sgn(y.m) * (2 * q + sticky), x.e - y.e - k - 1)

\* x > y
fgt(x, y) == fsub(x, y).m > 0

\* whether the product / the sum is representable, i.e. computed without rounding
ExactMul(x, y) == BitLen(Abs(x.m * y.m)) <= Prec

ExactAdd(x, y) ==
    LET hi == IF x.e >= y.e THEN x ELSE y
        lo == IF x.e >= y.e THEN y ELSE x
        d == hi.e - lo.e
    IN  \/ x.m = 0
        \/ y.m = 0
        \/ /\ BitLen(Abs(hi.m)) + d <= 2 * Prec + 2
           /\ BitLen(Abs(Norm(hi.m * Pow2(d) + lo.m, lo.e).m)) <= Prec

Zero == PyInt(0)
One == PyInt(1)
Two == PyInt(2)

\* a possibly infinite number: float('+Inf') or a finite value
Inf == [inf |-> TRUE, v |-> Zero]
Fin(x) == [inf |-> FALSE, v |-> x]

(***************************************************************************)
(* class Ray                                                               *)
(***************************************************************************)
Ray(y, theta, z, isBlocked) ==
    [cls |-> "Ray", y |-> y, theta |-> theta, z |-> z, isBlocked |-> isBlocked]

\* what a call returns: a list of rays, or the exception it raises
RayList(rays) == [cls |-> "list", rays |-> rays]

ZeroDivisionError == [cls |-> "ZeroDivisionError"]

RECURSIVE fanLoop(_, _, _, _, _, _)
fanLoop(y, radianMin, radianMax, N, i, rays) ==
    IF i >= N THEN RayList(rays)
    ELSE IF N - 1 = 0 THEN ZeroDivisionError
    ELSE LET theta == fadd(radianMin,
                           fdiv(fmul(PyInt(i), fsub(radianMax, radianMin)), PyInt(N - 1)))
         IN  fanLoop(y, radianMin, radianMax, N, i + 1,
                     Append(rays, Ray(y, theta, PyInt(0), FALSE)))

fan(y, radianMin, radianMax, N) == fanLoop(y, radianMin, radianMax, N, 0, <<>>)

RECURSIVE fanGroupLoop(_, _, _, _, _, _, _, _, _)
fanGroupLoop(yMin, yMax, M, radianMin, radianMax, N, j, i, rays) ==
    IF j >= M THEN RayList(rays)
    ELSE IF i >= N
         THEN fanGroupLoop(yMin, yMax, M, radianMin, radianMax, N, j + 1, 0, rays)
    ELSE IF N - 1 = 0 \/ M - 1 = 0 THEN ZeroDivisionError
    ELSE LET theta == fadd(radianMin,
                           fdiv(fmul(PyInt(i), fsub(radianMax, radianMin)), PyInt(N - 1)))
             y == fadd(yMin, fdiv(fmul(PyInt(j), fsub(yMax, yMin)), PyInt(M - 1)))
         IN  fanGroupLoop(yMin, yMax, M, radianMin, radianMax, N, j, i + 1,
                          Append(rays, Ray(y, theta, PyInt(0), FALSE)))

fanGroup(yMin, yMax, M, radianMin, radianMax, N) ==
    fanGroupLoop(yMin, yMax, M, radianMin, radianMax, N, 0, 0, <<>>)

(***************************************************************************)
(* class Matrix and its subclasses                                         *)
(***************************************************************************)
MatrixClasses == {"Matrix", "Lens", "Space", "Aperture"}

MatrixInit(cls, A, B, C, D, physicalLength, apertureDiameter) ==
    [cls |-> cls,
     A |-> float(A), B |-> float(B), C |-> float(C), D |-> float(D),
     L |-> float(physicalLength),
     apertureDiameter |-> apertureDiameter]

Matrix(A, B, C, D, physicalLength, apertureDiameter) ==
    MatrixInit("Matrix", A, B, C, D, physicalLength, apertureDiameter)

Lens(f, diameter) ==
    MatrixInit("Lens", PyInt(1), PyInt(0), fdiv(PyInt(-1), float(f)), PyInt(1), PyInt(0), diameter)

Space(d) ==
    MatrixInit("Space", PyInt(1), float(d), PyInt(0), PyInt(1), d, Inf)

Aperture(diameter) ==
    MatrixInit("Aperture", PyInt(1), PyInt(0), PyInt(0), PyInt(1), PyInt(0), diameter)

\* mutant: the length of the right operand is left out
mul_matrix_dropsLength(self, rightSideMatrix) ==
    LET a == fadd(fmul(self.A, rightSideMatrix.A), fmul(self.B, rightSideMatrix.C))
        b == fadd(fmul(self.A, rightSideMatrix.B), fmul(self.B, rightSideMatrix.D))
        c == fadd(fmul(self.C, rightSideMatrix.A), fmul(self.D, rightSideMatrix.C))
        d == fadd(fmul(self.C, rightSideMatrix.B), fmul(self.D, rightSideMatrix.D))
    IN  Matrix(a, b, c, d, self.L, Inf)

\* mutant: b is computed with C in the place of D
mul_matrix_wrongB(self, rightSideMatrix) ==
    LET a == fadd(fmul(self.A, rightSideMatrix.A), fmul(self.B, rightSideMatrix.C))
        b == fadd(fmul(self.A, rightSideMatrix.B), fmul(self.B, rightSideMatrix.C))
        c == fadd(fmul(self.C, rightSideMatrix.A), fmul(self.D, rightSideMatrix.C))
        d == fadd(fmul(self.C, rightSideMatrix.B), fmul(self.D, rightSideMatrix.D))
        l == fadd(self.L, rightSideMatrix.L)
    IN  Matrix(a, b, c, d, l, Inf)

mul_matrix(self, rightSideMatrix) ==
    LET a == fadd(fmul(self.A, rightSideMatrix.A), fmul(self.B, rightSideMatrix.C))
        b == fadd(fmul(self.A, rightSideMatrix.B), fmul(self.B, rightSideMatrix.D))
        c == fadd(fmul(self.C, rightSideMatrix.A), fmul(self.D, rightSideMatrix.C))
        d == fadd(fmul(self.C, rightSideMatrix.B), fmul(self.D, rightSideMatrix.D))
        l == fadd(self.L, rightSideMatrix.L)
    IN  Matrix(a, b, c, d, l, Inf)

\* abs(y) > apertureDiameter/2
Blocks(apertureDiameter, y) ==
    /\ ~apertureDiameter.inf
    /\ fgt(fabs(y), fdiv(apertureDiameter.v, Two))

\* mutant: the flag is set from this element's aperture alone
mul_ray_unsticky(self, rightSideRay) ==
    Ray(fadd(fmul(self.A, rightSideRay.y), fmul(self.B, rightSideRay.theta)),
        fadd(fmul(self.C, rightSideRay.y), fmul(self.D, rightSideRay.theta)),
        fadd(self.L, rightSideRay.z),
        Blocks(self.apertureDiameter, rightSideRay.y))

\* mutant: the aperture is tested against the height the ray leaves with
mul_ray_after(self, rightSideRay) ==
    LET y == fadd(fmul(self.A, rightSideRay.y), fmul(self.B, rightSideRay.theta))
    IN  Ray(y,
            fadd(fmul(self.C, rightSideRay.y), fmul(self.D, rightSideRay.theta)),
            fadd(self.L, rightSideRay.z),
            IF Blocks(self.apertureDiameter, y) THEN TRUE ELSE rightSideRay.isBlocked)

mul_ray(self, rightSideRay) ==
    Ray(fadd(fmul(self.A, rightSideRay.y), fmul(self.B, rightSideRay.theta)),
        fadd(fmul(self.C, rightSideRay.y), fmul(self.D, rightSideRay.theta)),
        fadd(self.L, rightSideRay.z),
        IF Blocks(self.apertureDiameter, rightSideRay.y)
        THEN TRUE
        ELSE rightSideRay.isBlocked)

\* what __mul__ returns when it falls off its last branch
None == [cls |-> "NoneType"]

Matrix_mul(self, rightSide) ==
    IF rightSide.cls \in MatrixClasses THEN mul_matrix(self, rightSide)
    ELSE IF rightSide.cls = "Ray" THEN mul_ray(self, rightSide)
    ELSE None

(***************************************************************************)
(* class OpticalPath                                                       *)
(***************************************************************************)
\* mutant: the element is put in front
OpticalPath_append_front(elems, matrix) == <<matrix>> \o elems

OpticalPath_append(elems, matrix) == Append(elems, matrix)

\* mutant: the element is composed as the right operand
RECURSIVE transferMatrixLoop_right(_, _)
transferMatrixLoop_right(elems, transfer) ==
    IF elems = <<>> THEN transfer
    ELSE transferMatrixLoop_right(Tail(elems), Matrix_mul(transfer, Head(elems)))

RECURSIVE transferMatrixLoop(_, _)
transferMatrixLoop(elems, transfer) ==
    IF elems = <<>> THEN transfer
    ELSE transferMatrixLoop(Tail(elems), Matrix_mul(Head(elems), transfer))

transferMatrix(elems) ==
    transferMatrixLoop(elems, Matrix(PyInt(1), PyInt(0), PyInt(0), PyInt(1), PyInt(0), Inf))

\* mutant: the loop is left once the ray is blocked
RECURSIVE propagateLoop_halting(_, _, _)
propagateLoop_halting(elems, ray, outputRays) ==
    IF elems = <<>> \/ ray.isBlocked THEN outputRays
    ELSE LET next == Matrix_mul(Head(elems), ray)
         IN  propagateLoop_halting(Tail(elems), next, Append(outputRays, next))

RECURSIVE propagateLoop(_, _, _)
propagateLoop(elems, ray, outputRays) ==
    IF elems = <<>> THEN outputRays
    ELSE LET next == Matrix_mul(Head(elems), ray)
         IN  propagateLoop(Tail(elems), next, Append(outputRays, next))

propagate(elems, inputRay) == propagateLoop(elems, inputRay, <<inputRay>>)

\* mutant: one outputRays list is shared by all the input rays
RECURSIVE propagateManyLoop_shared(_, _, _)
propagateManyLoop_shared(elems, inputRays, output) ==
    IF inputRays = <<>> THEN output
    ELSE LET before == IF output = <<>> THEN <<>> ELSE output[Len(output)]
         IN  propagateManyLoop_shared(elems, Tail(inputRays),
                 Append(output, propagateLoop(elems, Head(inputRays),
                                              Append(before, Head(inputRays)))))

RECURSIVE propagateManyLoop(_, _, _)
propagateManyLoop(elems, inputRays, output) ==
    IF inputRays = <<>> THEN output
    ELSE propagateManyLoop(elems, Tail(inputRays),
             Append(output, propagateLoop(elems, Head(inputRays), <<Head(inputRays)>>)))

propagateMany(elems, inputRays) == propagateManyLoop(elems, inputRays, <<>>)

(***************************************************************************)
(* Whether a call computes every product and sum without rounding.         *)
(***************************************************************************)
ExactDot(a, x, b, y) ==
    /\ ExactMul(a, x)
    /\ ExactMul(b, y)
    /\ ExactAdd(fmul(a, x), fmul(b, y))

ExactMulMatrix(self, rightSideMatrix) ==
    /\ ExactDot(self.A, rightSideMatrix.A, self.B, rightSideMatrix.C)
    /\ ExactDot(self.A, rightSideMatrix.B, self.B, rightSideMatrix.D)
    /\ ExactDot(self.C, rightSideMatrix.A, self.D, rightSideMatrix.C)
    /\ ExactDot(self.C, rightSideMatrix.B, self.D, rightSideMatrix.D)
    /\ ExactAdd(self.L, rightSideMatrix.L)

ExactMulRay(self, rightSideRay) ==
    /\ ExactDot(self.A, rightSideRay.y, self.B, rightSideRay.theta)
    /\ ExactDot(self.C, rightSideRay.y, self.D, rightSideRay.theta)
    /\ ExactAdd(self.L, rightSideRay.z)

RECURSIVE ExactTransfer(_, _)
ExactTransfer(elems, acc) ==
    \/ elems = <<>>
    \/ /\ ExactMulMatrix(Head(elems), acc)
       /\ ExactTransfer(Tail(elems), mul_matrix(Head(elems), acc))

RECURSIVE ExactPropagate(_, _)
ExactPropagate(elems, ray) ==
    \/ elems = <<>>
    \/ /\ ExactMulRay(Head(elems), ray)
       /\ ExactPropagate(Tail(elems), mul_ray(Head(elems), ray))

(***************************************************************************)
(* The state: one OpticalPath, and what the last calls were handed and     *)
(* returned.                                                               *)
(***************************************************************************)
VARIABLES
    elements,     \* OpticalPath.elements
    appended,     \* the elements handed to append, in call order
    op,           \* the last call
    inputRays,    \* the rays handed to the last propagate / propagateMany, as they are after it
    traces,       \* the traces it returned (one for propagate)
    transfer,     \* what the last transferMatrix returned
    mulSelf,      \* Matrix.__mul__: the left operand of the last call
    mulRight,     \* its right operand
    mulOut,       \* what it returned
    depth,        \* the number of mul_matrix calls behind mulOut
    fromPrimitives, \* whether mulOut is composed of Lens, Space, Aperture and the identity only
    exact,        \* whether every product and sum behind mulOut was computed without rounding
    fanArgs,      \* Ray.fan / Ray.fanGroup: the arguments of the last call
    fanOut        \* what it returned or raised

pathVars == <<elements, appended, op, inputRays, traces, transfer>>
mulVars == <<mulSelf, mulRight, mulOut, depth, fromPrimitives, exact>>
fanVars == <<fanArgs, fanOut>>
vars == <<elements, appended, op, inputRays, traces, transfer,
          mulSelf, mulRight, mulOut, depth, fromPrimitives, exact, fanArgs, fanOut>>

(***************************************************************************)
(* The values the calls are made with.                                     *)
(***************************************************************************)
Identity == Matrix(PyInt(1), PyInt(0), PyInt(0), PyInt(1), PyInt(0), Inf)

\* the elements appended to the path
Elements ==
    { Space(PyInt(2)),
      Lens(PyInt(3), Inf), Lens(PyInt(2), Fin(PyInt(2))),
      Aperture(Fin(PyInt(2))),
      Matrix(PyInt(1), PyInt(2), PyInt(0), PyInt(1), PyInt(2), Fin(PyInt(2))) }

\* the rays propagated: on, inside and outside an aperture of diameter 2,
\* above and below the axis, with an angle that is no binary fraction, and
\* one that arrives already blocked
Rays ==
    { Ray(Dyadic(1, -1), PyInt(0), PyInt(0), FALSE),
      Ray(Dyadic(1, -1), Dyadic(1, -2), PyInt(0), FALSE),
      Ray(Dyadic(3, -1), PyInt(0), PyInt(0), FALSE),
      Ray(Dyadic(-3, -1), Dyadic(1, -2), PyInt(0), FALSE),
      Ray(Dyadic(1, -1), fdiv(PyInt(1), PyInt(10)), PyInt(0), FALSE),
      Ray(PyInt(0), Dyadic(1, -2), PyInt(1), TRUE) }

\* the rays of the lists handed to propagateMany
BatchRays ==
    { Ray(Dyadic(1, -1), Dyadic(1, -2), PyInt(0), FALSE),
      Ray(Dyadic(3, -1), PyInt(0), PyInt(0), FALSE) }

RayLists == UNION { [1..n -> BatchRays] : n \in 0..MaxRays }

PathInit ==
    /\ elements = <<>>
    /\ appended = <<>>
    /\ op = "init"
    /\ inputRays = <<>>
    /\ traces = <<>>
    /\ transfer = None

MulInit ==
    /\ mulSelf = None
    /\ mulRight = None
    /\ mulOut = None
    /\ depth = 0
    /\ fromPrimitives = TRUE
    /\ exact = TRUE

FanInit ==
    /\ fanArgs = [fn |-> "none"]
    /\ fanOut = None

Init == PathInit /\ MulInit /\ FanInit

(***************************************************************************)
(* The calls on the OpticalPath.                                           *)
(***************************************************************************)
DoAppend(e) ==
    /\ Len(elements) < MaxLen
    /\ elements' = OpticalPath_append(elements, e)
    /\ appended' = Append(appended, e)
    /\ op' = "append"
    /\ inputRays' = <<>>
    /\ traces' = <<>>
    /\ transfer' = None
    /\ UNCHANGED <<mulVars, fanVars>>

DoTransferMatrix ==
    /\ transfer' = transferMatrix(elements)
    /\ op' = "transferMatrix"
    /\ inputRays' = <<>>
    /\ traces' = <<>>
    /\ UNCHANGED <<elements, appended, mulVars, fanVars>>

DoPropagate(r) ==
    /\ traces' = <<propagate(elements, r)>>
    /\ inputRays' = <<r>>
    /\ op' = "propagate"
    /\ transfer' = None
    /\ UNCHANGED <<elements, appended, mulVars, fanVars>>

DoPropagateMany(rs) ==
    /\ traces' = propagateMany(elements, rs)
    /\ inputRays' = rs
    /\ op' = "propagateMany"
    /\ transfer' = None
    /\ UNCHANGED <<elements, appended, mulVars, fanVars>>

Next ==
    \/ \E e \in Elements : DoAppend(e)
    \/ DoTransferMatrix
    \/ \E r \in Rays : DoPropagate(r)
    \/ \E rs \in RayLists : DoPropagateMany(rs)

Spec == Init /\ [][Next]_vars

(***************************************************************************)
(* Calls of Matrix.__mul__: on the elements below, on the result of the    *)
(* call before, and on operands that are neither a Matrix nor a Ray.       *)
(***************************************************************************)
Operands == Elements \cup {Identity}

OtherOperands == { [cls |-> "int", value |-> 3], [cls |-> "str", value |-> "lens"], None }

IsMatrix(x) == x.cls \in MatrixClasses

IsPrimitive(x) == x.cls \in {"Lens", "Space", "Aperture"} \/ x = Identity

\* self * rightSide, the operands being results of dSelf and dRight earlier calls
Call(self, rightSide, dSelf, dRight, pSelf, pRight, xSelf, xRight) ==
    /\ mulSelf' = self
    /\ mulRight' = rightSide
    /\ mulOut' = Matrix_mul(self, rightSide)
    /\ depth' = IF IsMatrix(rightSide) THEN dSelf + dRight + 1
                ELSE IF rightSide.cls = "Ray" THEN dRight + 1
                ELSE 0
    /\ depth' <= MaxCompose
    /\ fromPrimitives' = (IsMatrix(rightSide) => (pSelf /\ pRight))
    /\ exact' = (IsMatrix(rightSide) =>
                    (xSelf /\ xRight /\ ExactMulMatrix(self, rightSide)))
    /\ UNCHANGED <<pathVars, fanVars>>

MulFresh(self, rightSide) ==
    Call(self, rightSide, 0, 0, IsPrimitive(self),
         IsMatrix(rightSide) => IsPrimitive(rightSide), TRUE, TRUE)

MulResultBy(rightSide) ==
    /\ IsMatrix(mulOut)
    /\ Call(mulOut, rightSide, depth, 0, fromPrimitives,
            IsMatrix(rightSide) => IsPrimitive(rightSide), exact, TRUE)

MulByResult(self) ==
    /\ mulSelf # None
    /\ Call(self, mulOut, 0, depth, IsPrimitive(self), fromPrimitives, TRUE, exact)

MulResultByResult ==
    /\ IsMatrix(mulOut)
    /\ Call(mulOut, mulOut, depth, 0, fromPrimitives, fromPrimitives, exact, exact)

NextMul ==
    \/ \E a \in Operands, b \in Operands \cup BatchRays \cup OtherOperands : MulFresh(a, b)
    \/ \E b \in Operands \cup BatchRays \cup OtherOperands : MulResultBy(b)
    \/ \E a \in Operands : MulByResult(a)
    \/ MulResultByResult

SpecMul == Init /\ [][NextMul]_vars

(***************************************************************************)
(* Calls of Ray.fan and Ray.fanGroup.                                      *)
(***************************************************************************)
Counts == -1..MaxCount

Heights == { PyInt(1), PyInt(0) }

Spans == { <<fdiv(PyInt(-1), PyInt(10)), fdiv(PyInt(1), PyInt(10))>>,
           <<PyInt(0), Dyadic(1, -2)>> }

DoFan(y, radians, N) ==
    /\ fanArgs' = [fn |-> "fan", y |-> y,
                   radianMin |-> radians[1], radianMax |-> radians[2], N |-> N]
    /\ fanOut' = fan(y, radians[1], radians[2], N)
    /\ UNCHANGED <<pathVars, mulVars>>

DoFanGroup(ys, M, radians, N) ==
    /\ fanArgs' = [fn |-> "fanGroup", yMin |-> ys[1], yMax |-> ys[2], M |-> M,
                   radianMin |-> radians[1], radianMax |-> radians[2], N |-> N]
    /\ fanOut' = fanGroup(ys[1], ys[2], M, radians[1], radians[2], N)
    /\ UNCHANGED <<pathVars, mulVars>>

NextFan ==
    \/ \E y \in Heights, radians \in Spans, N \in Counts : DoFan(y, radians, N)
    \/ \E ys \in Spans, M \in Counts, radians \in Spans, N \in Counts :
           DoFanGroup(ys, M, radians, N)

SpecFan == Init /\ [][NextFan]_vars

(***************************************************************************)
(* Exact comparison of two numbers, by sign and magnitude.                 *)
(***************************************************************************)
\* the position of the leading bit of a non-zero number
Top(x) == BitLen(Abs(x.m)) + x.e

MagnitudeGreater(x, y) ==
    IF Top(x) # Top(y) THEN Top(x) > Top(y)
    ELSE LET lo == IF x.e <= y.e THEN x.e ELSE y.e
         IN  Abs(x.m) * Pow2(x.e - lo) > Abs(y.m) * Pow2(y.e - lo)

Greater(x, y) ==
    IF x.m = 0 THEN y.m < 0
    ELSE IF y.m = 0 THEN x.m > 0
    ELSE IF x.m > 0 /\ y.m < 0 THEN TRUE
    ELSE IF x.m < 0 /\ y.m > 0 THEN FALSE
    ELSE IF x.m > 0 THEN MagnitudeGreater(x, y)
    ELSE MagnitudeGreater(y, x)

Half(x) == Norm(x.m, x.e - 1)

Coordinates(ray) == <<ray.y, ray.theta, ray.z>>

IsPrefix(s, t) == Len(s) <= Len(t) /\ SubSeq(t, 1, Len(s)) = s

(***************************************************************************)
(* C1: in a trace returned by propagate, every state after a blocked state *)
(* is blocked, whatever the apertures of the later elements are.           *)
(***************************************************************************)
C1_BlockingIsSticky ==
    op = "propagate" =>
        LET trace == traces[1]
        IN  \A i, j \in 1..Len(trace) :
                (i < j /\ trace[i].isBlocked) => trace[j].isBlocked

\* a ray blocked on the way passes an element of infinite aperture
C1_Witness ==
    /\ op = "propagate"
    /\ ~inputRays[1].isBlocked
    /\ \E k \in 1..Len(elements) :
           /\ traces[1][k].isBlocked
           /\ elements[k].apertureDiameter.inf
           /\ traces[1][k + 1].isBlocked

(***************************************************************************)
(* C2, as claimed: multiplying an element by an operand that is neither a  *)
(* Matrix nor a Ray fails with an error; it never returns nothing.         *)
(***************************************************************************)
C2_UnsupportedOperandFails ==
    (IsMatrix(mulSelf) /\ ~IsMatrix(mulRight) /\ mulRight.cls # "Ray") =>
        mulOut # None

(***************************************************************************)
(* C3, as claimed: fan with N < 2, and fanGroup with M < 2 or N < 2, fail  *)
(* with a dedicated error: they neither raise a division by zero nor       *)
(* return a list of rays.                                                  *)
(***************************************************************************)
C3_DegenerateFanFails ==
    /\ (fanArgs.fn = "fan" /\ fanArgs.N < 2) =>
           fanOut.cls \notin {"ZeroDivisionError", "list"}
    /\ (fanArgs.fn = "fanGroup" /\ (fanArgs.M < 2 \/ fanArgs.N < 2)) =>
           fanOut.cls \notin {"ZeroDivisionError", "list"}

(***************************************************************************)
(* C4: propagate returns n + 1 states for a path of n elements: the input  *)
(* ray, then each element's transform of the state before it; a blocked    *)
(* ray is propagated on, its y, theta and z computed as for any ray.       *)
(***************************************************************************)
C4_TraceIsComplete ==
    op = "propagate" =>
        LET trace == traces[1]
        IN  /\ Len(trace) = Len(elements) + 1
            /\ trace[1] = inputRays[1]
            /\ \A k \in 1..Len(elements) :
                   LET e == elements[k]
                       in == trace[k]
                       out == trace[k + 1]
                   IN  /\ out = mul_ray(e, in)
                       /\ out.y = fadd(fmul(e.A, in.y), fmul(e.B, in.theta))
                       /\ out.theta = fadd(fmul(e.C, in.y), fmul(e.D, in.theta))
                       /\ out.z = fadd(e.L, in.z)

\* a ray blocked by the first element of a full path moves on to the end
C4_Witness ==
    /\ op = "propagate"
    /\ Len(elements) = MaxLen
    /\ ~traces[1][1].isBlocked
    /\ traces[1][2].isBlocked
    /\ Len(traces[1]) = MaxLen + 1
    /\ Greater(traces[1][MaxLen + 1].z, traces[1][2].z)
    /\ traces[1][MaxLen + 1].y # traces[1][2].y

(***************************************************************************)
(* C5: propagateMany returns one trace per input ray, in input order, and  *)
(* each is the trace propagate returns for that ray alone.                 *)
(***************************************************************************)
C5_ManyIsEachAlone ==
    op = "propagateMany" =>
        /\ Len(traces) = Len(inputRays)
        /\ \A i \in 1..Len(inputRays) : traces[i] = propagate(elements, inputRays[i])

\* two different rays in one batch, with different traces
C5_Witness ==
    /\ op = "propagateMany"
    /\ Len(elements) >= 2
    /\ Len(inputRays) = 2
    /\ inputRays[1] # inputRays[2]
    /\ traces[1][Len(elements) + 1] # traces[2][Len(elements) + 1]

(***************************************************************************)
(* C6, as claimed: identity * E and E * identity have the A, B, C, D and L *)
(* of E, and the aperture diameter of E.                                   *)
(***************************************************************************)
SameTransform(m, e) ==
    /\ m.A = e.A /\ m.B = e.B /\ m.C = e.C /\ m.D = e.D
    /\ m.L = e.L

C6_IdentityKeepsAperture ==
    /\ (mulSelf = Identity /\ IsMatrix(mulRight)) =>
           /\ SameTransform(mulOut, mulRight)
           /\ mulOut.apertureDiameter = mulRight.apertureDiameter
    /\ (IsMatrix(mulSelf) /\ mulRight = Identity) =>
           /\ SameTransform(mulOut, mulSelf)
           /\ mulOut.apertureDiameter = mulSelf.apertureDiameter

(***************************************************************************)
(* C6, amended: identity * E and E * identity have the A, B, C, D and L of *)
(* E; their aperture diameter is infinite whatever that of E is.           *)
(***************************************************************************)
C6_IdentityKeepsTransform ==
    /\ (mulSelf = Identity /\ IsMatrix(mulRight)) =>
           /\ SameTransform(mulOut, mulRight)
           /\ mulOut.apertureDiameter = Inf
    /\ (IsMatrix(mulSelf) /\ mulRight = Identity) =>
           /\ SameTransform(mulOut, mulSelf)
           /\ mulOut.apertureDiameter = Inf

\* the identity composed with a lens of finite aperture
C6_Witness ==
    /\ mulSelf = Identity
    /\ mulRight = Lens(PyInt(2), Fin(PyInt(2)))
    /\ SameTransform(mulOut, mulRight)
    /\ mulOut.apertureDiameter = Inf

(***************************************************************************)
(* The determinant of the stored coefficients, as real numbers.            *)
(***************************************************************************)
ExactProduct(x, y) == Norm(x.m * y.m, x.e + y.e)

\* x = y + 1; a sum too wide to be a product of two floats is not computed
IsSuccessor(x, y) ==
    IF y.e >= 0
    THEN /\ BitLen(Abs(y.m)) + y.e <= 2 * Prec + 1
         /\ x = Norm(y.m * Pow2(y.e) + 1, 0)
    ELSE /\ -y.e <= 2 * Prec + 1
         /\ x = Norm(y.m + Pow2(-y.e), y.e)

UnitDeterminant(m) ==
    IsSuccessor(ExactProduct(m.A, m.D), ExactProduct(m.B, m.C))

(***************************************************************************)
(* C7, as claimed: every element composed by mul_matrix calls of Lens,     *)
(* Space and Aperture elements and the identity transferMatrix starts from *)
(* has A*D - B*C = 1.                                                      *)
(***************************************************************************)
C7_UnitDeterminant ==
    (IsMatrix(mulOut) /\ fromPrimitives) => UnitDeterminant(mulOut)

(***************************************************************************)
(* C7, amended: every such element has A*D - B*C = 1 whenever no product   *)
(* or sum of the mul_matrix calls behind it was rounded.                   *)
(***************************************************************************)
C7_UnitDeterminantExact ==
    (IsMatrix(mulOut) /\ fromPrimitives /\ exact) => UnitDeterminant(mulOut)

\* a lens between two spaces, composed without rounding
C7_Witness ==
    /\ IsMatrix(mulOut)
    /\ fromPrimitives
    /\ exact
    /\ depth = 2
    /\ mulOut.A # One /\ mulOut.B # Zero /\ mulOut.C # Zero /\ mulOut.D # One
    /\ UnitDeterminant(mulOut)
(***************************************************************************)
(* C8: the element sequence is the appended elements in append order,      *)
(* every call leaves the earlier sequence a prefix of the later one, and   *)
(* transferMatrix, propagate and propagateMany leave the sequence, its     *)
(* elements and the input rays as they were.                               *)
(***************************************************************************)
C8_AppendOnly ==
    /\ [](elements = appended)
    /\ [][ /\ IsPrefix(elements, elements')
           /\ op' \in {"transferMatrix", "propagate", "propagateMany"} =>
                  elements' = elements
           /\ op' \in {"propagate", "propagateMany"} =>
                  /\ Len(traces') = Len(inputRays')
                  /\ \A i \in 1..Len(inputRays') : traces'[i][1] = inputRays'[i]
         ]_vars

\* calls of all four kinds were made on a path of different elements
C8_Witness ==
    /\ op = "propagateMany"
    /\ Len(elements) = MaxLen
    /\ elements[1] # elements[2]
    /\ Len(inputRays) = 2

(***************************************************************************)
(* C9: an element blocks the ray exactly when the ray arrives blocked or   *)
(* the height it arrives with is strictly beyond half the element's        *)
(* aperture diameter; in [Space(2), Aperture(2)] a ray arriving at the     *)
(* aperture at height 1.5 ends blocked, one arriving at 0.5 unblocked.     *)
(***************************************************************************)
BeyondAperture(element, ray) ==
    /\ ~element.apertureDiameter.inf
    /\ Greater(fabs(ray.y), Half(element.apertureDiameter.v))

C9_BlockingRule ==
    op \in {"propagate", "propagateMany"} =>
        \A t \in 1..Len(traces) :
            /\ \A k \in 1..Len(elements) :
                   traces[t][k + 1].isBlocked <=>
                       (traces[t][k].isBlocked \/ BeyondAperture(elements[k], traces[t][k]))
            /\ (elements = <<Space(PyInt(2)), Aperture(Fin(PyInt(2)))>>
                    /\ ~inputRays[t].isBlocked) =>
                   /\ traces[t][2].y = Dyadic(3, -1) => traces[t][3].isBlocked
                   /\ traces[t][2].y = Dyadic(1, -1) => ~traces[t][3].isBlocked

\* in [Space(2), Aperture(2)] one ray arrives at the aperture's edge and
\* passes, the other arrives at height 1.5 and is blocked
C9_Witness ==
    /\ op = "propagateMany"
    /\ elements = <<Space(PyInt(2)), Aperture(Fin(PyInt(2)))>>
    /\ Len(traces) = 2
    /\ traces[1][2].y = PyInt(1) /\ ~traces[1][3].isBlocked
    /\ traces[2][2].y = Dyadic(3, -1) /\ traces[2][3].isBlocked

\* E_n * ... * E_1 * identity, from the last element down
RECURSIVE Product(_)
Product(elems) ==
    IF elems = <<>> THEN Identity
    ELSE mul_matrix(elems[Len(elems)], Product(SubSeq(elems, 1, Len(elems) - 1)))

RECURSIVE SumOfLengths(_)
SumOfLengths(elems) ==
    IF elems = <<>> THEN Zero
    ELSE fadd(elems[Len(elems)].L, SumOfLengths(SubSeq(elems, 1, Len(elems) - 1)))

TransferIsProduct ==
    op = "transferMatrix" =>
        /\ transfer = Product(elements)
        /\ transfer.L = SumOfLengths(elements)

(***************************************************************************)
(* C10, as claimed: transferMatrix() is E_n * ... * E_1 * identity, with L *)
(* the sum of the lengths, and applied to any ray it yields the y, theta   *)
(* and z of the last state propagate returns for that ray.                 *)
(***************************************************************************)
C10_TransferEqualsPropagate ==
    /\ TransferIsProduct
    /\ op = "propagate" =>
           Coordinates(mul_ray(transferMatrix(elements), inputRays[1]))
               = Coordinates(traces[1][Len(traces[1])])

(***************************************************************************)
(* C10, amended: the same, the y, theta and z being equal whenever no      *)
(* product or sum of transferMatrix, of propagate and of the final         *)
(* transform is rounded.                                                   *)
(***************************************************************************)
C10_TransferEqualsPropagateExact ==
    /\ TransferIsProduct
    /\ ( /\ op = "propagate"
         /\ ExactTransfer(elements, Identity)
         /\ ExactPropagate(elements, inputRays[1])
         /\ ExactMulRay(transferMatrix(elements), inputRays[1]) ) =>
           Coordinates(mul_ray(transferMatrix(elements), inputRays[1]))
               = Coordinates(traces[1][Len(traces[1])])

\* an off-axis ray through a full path of a lens between two spaces, computed without rounding
C10_Witness ==
    /\ op = "propagate"
    /\ Len(elements) = MaxLen
    /\ elements[1].cls = "Space"
    /\ \E k \in 2..Len(elements) : elements[k].cls = "Lens"
    /\ inputRays[1].y # Zero
    /\ ExactTransfer(elements, Identity)
    /\ ExactPropagate(elements, inputRays[1])
    /\ ExactMulRay(transferMatrix(elements), inputRays[1])
    /\ traces[1][Len(traces[1])].y # inputRays[1].y

====
